---- MODULE Spec2Model ----
(***************************************************************************)
(* A model of ORD_SCAPER/ord_scraper.py.py: the command-line entry point   *)
(* main, the orchestrator scrape_ord_advanced, the poller                  *)
(* fetch_query_result, the decoder decode_reaction_proto and the extractor *)
(* extract_reaction_data.  The program is sequential; pc is its position.  *)
(* Strings the code inspects character by character (input-group names,    *)
(* response texts, category names) are sequences of one-character strings. *)
(***************************************************************************)
EXTENDS Integers, Sequences, FiniteSets, TLC

VARIABLES
    pc,                 \* position of the process
    schema_available,   \* whether `from ord_schema.proto import reaction_pb2` succeeds
    core_order,         \* iteration order of the set CORE_CATEGORIES in this process
    max_datasets,       \* args.max_datasets, then the parameter max_datasets (None = -1)
    dataset_ids,        \* ds_ids / dataset_ids: the allow-list ({} = None or empty)
    per_dataset_limit,  \* args.per_dataset_limit
    fetched,            \* the JSON list GET /datasets answered
    datasets,           \* the list the for loop iterates
    ds_i,               \* position of the for loop in datasets (1-based)
    processed_count,
    all_results,
    first_result,       \* position in all_results of the current dataset's first entry
    dataset_id,         \* ds.get("dataset_id") of the current dataset
    effective_limit,
    task_id,
    submitted,          \* every submit_query call so far: dataset_id, limit, task_id
    elapsed,            \* time.time() - start_time in fetch_query_result
    polls,              \* GET /fetch_query_result requests for the current dataset
    sleeps,             \* time.sleep(2.0) calls of the poller for the current dataset
    last_resp,          \* the latest poll response for the current dataset
    slept,              \* whether time.sleep(2.0) ran after the latest poll response
    items,
    item_i,             \* position of the loop over items (1-based)
    decoded,            \* positions of items handed to decode_reaction_proto
    extractions,        \* number of extract_reaction_data calls so far
    exc,                \* the exception being propagated to the except clause
    exit_code,          \* process exit status (-1 = still running)
    record,             \* the decoded record a caller hands to extract_reaction_data
    data                \* what its calls of extract_reaction_data gave, in call order

vars == <<pc, schema_available, core_order, max_datasets, dataset_ids,
          per_dataset_limit, fetched, datasets, ds_i, processed_count,
          all_results, first_result, dataset_id, effective_limit, task_id,
          submitted, elapsed, polls,
          sleeps, last_resp, slept, items, item_i, decoded,
          extractions, exc, exit_code, record, data>>

(***************************************************************************)
(* Bounds of the model.                                                    *)
(***************************************************************************)
MaxDatasetsArg == 1     \* --max_datasets ranges over 0..MaxDatasetsArg
MaxLimitArg == 1        \* --limit ranges over 0..MaxLimitArg
MaxItems == 2           \* length of the list a ready poll answers
RequestTime == 30       \* time units one GET of the poller takes

(***************************************************************************)
(* Program constants.                                                      *)
(***************************************************************************)
REACTION_TIMEOUT_S == 90
POLL_SLEEP_S == 2
None == -1

(***************************************************************************)
(* Strings as sequences of characters.                                     *)
(***************************************************************************)
UPPERCASE == <<"A","B","C","D","E","F","G","H","I","J","K","L","M",
               "N","O","P","Q","R","S","T","U","V","W","X","Y","Z">>
LOWERCASE == <<"a","b","c","d","e","f","g","h","i","j","k","l","m",
               "n","o","p","q","r","s","t","u","v","w","x","y","z">>
WHITESPACE == {" ", "\t", "\n"}

\* str.lower()
lower(s) ==
    [i \in 1..Len(s) |->
        IF \E j \in 1..26 : UPPERCASE[j] = s[i]
        THEN LOWERCASE[CHOOSE j \in 1..26 : UPPERCASE[j] = s[i]]
        ELSE s[i]]

\* str.strip()
strip(s) ==
    LET keep == {i \in 1..Len(s) : s[i] \notin WHITESPACE}
    IN  IF keep = {} THEN <<>>
        ELSE LET lo == CHOOSE i \in keep : \A j \in keep : i <= j
                 hi == CHOOSE i \in keep : \A j \in keep : j <= i
             IN  SubSeq(s, lo, hi)

\* str.replace(old, new) for one-character old and new
replace(s, old, new) == [i \in 1..Len(s) |-> IF s[i] = old THEN new ELSE s[i]]

\* `sub in s` for strings
contains(s, sub) ==
    \E i \in 0..(Len(s) - Len(sub)) : SubSeq(s, i + 1, i + Len(sub)) = sub

(***************************************************************************)
(* The schema collaborator (ord_schema) as the code uses it: decoded       *)
(* records, and the role-name lookup.                                      *)
(***************************************************************************)
Str_base == <<"b","a","s","e">>
Str_solvent == <<"s","o","l","v","e","n","t">>
Str_amine == <<"a","m","i","n","e">>
Str_aryl_halide == <<"a","r","y","l"," ","h","a","l","i","d","e">>
Str_metal == <<"m","e","t","a","l">>
Str_ligand == <<"l","i","g","a","n","d">>

CORE_CATEGORIES ==
    {Str_base, Str_solvent, Str_amine, Str_aryl_halide, Str_metal, Str_ligand}

\* The orders in which one process may iterate the set CORE_CATEGORIES.
CoreOrders ==
    { <<Str_base, Str_solvent, Str_amine, Str_aryl_halide, Str_metal, Str_ligand>>,
      <<Str_ligand, Str_metal, Str_aryl_halide, Str_amine, Str_solvent, Str_base>> }

\* reaction_pb2.ReactionRole.Name(code): raises for a code that is no role.
ROLE_NAMES == <<"REACTANT", "SOLVENT", "CATALYST">>
RoleNameRaises(code) == code \notin DOMAIN ROLE_NAMES

\* Decoded records.  `raises` names the attribute whose access raises.
Component(idents, role) == [identifiers |-> idents, reaction_role |-> role]
Input(key, comps) == [key |-> key, components |-> comps]
Rxn(rid, raises, outcomes, inputs) ==
    [reaction_id |-> rid, raises |-> raises, outcomes |-> outcomes, inputs |-> inputs]

Key_Pd_ligand_1 == <<"P","d","_","l","i","g","a","n","d","_","1">>
Key_Base == <<" ","B","a","s","e"," ">>
Key_Quench == <<"Q","u","e","n","c","h">>

Rxn_A ==
    Rxn("rxn-A", "none", <<[reaction_product |-> TRUE]>>,
        << Input(Key_Pd_ligand_1, <<Component(<<"XPhos", "", "CC1">>, 3)>>),
           Input(Key_Quench, <<Component(<<"water">>, 7), Component(<<"">>, 1)>>) >>)
Rxn_B ==
    Rxn("rxn-B", "outcomes", <<>>,
        << Input(Key_Base, <<Component(<<"K2CO3">>, 1)>>) >>)
Rxn_C ==
    Rxn("rxn-C", "reaction_id", <<>>,
        << Input(Key_Base, <<Component(<<"K2CO3">>, 1)>>) >>)

\* Payloads (the "proto" field of an envelope): "" is a missing or empty field,
\* "??" is not a serialized record, the others decode to the record named.
Payloads == {"", "??", "A", "B", "C"}
ParseFromString(proto_b64) ==
    CASE proto_b64 = "A" -> Rxn_A
      [] proto_b64 = "B" -> Rxn_B
      [] proto_b64 = "C" -> Rxn_C
DecodeRaises(proto_b64) == proto_b64 \notin {"A", "B", "C"}

(***************************************************************************)
(* extract_identifiers and extract_reaction_data.                          *)
(***************************************************************************)
RECURSIVE join(_)
join(texts) ==
    IF Len(texts) = 0 THEN ""
    ELSE IF Len(texts) = 1 THEN texts[1]
    ELSE texts[1] \o "; " \o join(Tail(texts))

extract_identifiers(compound) ==
    join(SelectSeq(compound.identifiers, LAMBDA v : v # ""))

role_name_of(component) ==
    IF RoleNameRaises(component.reaction_role) THEN "UNKNOWN"
    ELSE ROLE_NAMES[component.reaction_role]

\* The match of line 140 as an equality of names.
RECURSIVE first_core_key_exact(_, _)
first_core_key_exact(order, normalized_key) ==
    IF order = <<>> THEN <<>>
    ELSE IF normalized_key = Head(order) THEN Head(order)
    ELSE first_core_key_exact(Tail(order), normalized_key)

\* The first core_key of the iteration order that is a substring of the
\* normalized key, or <<>> when the for loop ends without a break.
RECURSIVE first_core_key(_, _)
first_core_key(order, normalized_key) ==
    IF order = <<>> THEN <<>>
    ELSE IF contains(normalized_key, Head(order)) THEN Head(order)
    ELSE first_core_key(Tail(order), normalized_key)

\* extracted_roles[k].append(comp_data), creating the list when k is new
append_to(extracted_roles, k, comp_data) ==
    IF k \in DOMAIN extracted_roles
    THEN [extracted_roles EXCEPT ![k] = Append(@, comp_data)]
    ELSE [x \in DOMAIN extracted_roles \cup {k} |->
            IF x = k THEN <<comp_data>> ELSE extracted_roles[x]]

\* The loop body without the `break` of line 143.
add_component_without_break(extracted_roles, order, normalized_key, component) ==
    LET text_id == extract_identifiers(component)
        comp_data == [value |-> text_id, role |-> role_name_of(component)]
        core_key == first_core_key(order, normalized_key)
    IN  IF text_id = "" THEN extracted_roles
        ELSE IF core_key # <<>>
             THEN [k \in DOMAIN extracted_roles |->
                    IF k \in CORE_CATEGORIES /\ contains(normalized_key, k)
                    THEN Append(extracted_roles[k], comp_data)
                    ELSE extracted_roles[k]]
        ELSE append_to(extracted_roles, normalized_key, comp_data)

\* The loop body without the `continue` of lines 122-123.
add_component_keeping_empty(extracted_roles, order, normalized_key, component) ==
    LET text_id == extract_identifiers(component)
        comp_data == [value |-> text_id, role |-> role_name_of(component)]
        core_key == first_core_key(order, normalized_key)
    IN  IF core_key # <<>> THEN append_to(extracted_roles, core_key, comp_data)
        ELSE append_to(extracted_roles, normalized_key, comp_data)

add_component(extracted_roles, order, normalized_key, component) ==
    LET text_id == extract_identifiers(component)
        comp_data == [value |-> text_id, role |-> role_name_of(component)]
        core_key == first_core_key(order, normalized_key)
    IN  IF text_id = "" THEN extracted_roles
        ELSE IF core_key # <<>> THEN append_to(extracted_roles, core_key, comp_data)
        ELSE append_to(extracted_roles, normalized_key, comp_data)

RECURSIVE add_components(_, _, _, _)
add_components(extracted_roles, order, normalized_key, components) ==
    IF components = <<>> THEN extracted_roles
    ELSE add_components(
            add_component(extracted_roles, order, normalized_key, Head(components)),
            order, normalized_key, Tail(components))

normalize_key(input_key) == replace(lower(strip(input_key)), "_", " ")

RECURSIVE walk_inputs(_, _, _)
walk_inputs(extracted_roles, order, inputs) ==
    IF inputs = <<>> THEN extracted_roles
    ELSE walk_inputs(
            add_components(extracted_roles, order,
                           normalize_key(Head(inputs).key), Head(inputs).components),
            order, Tail(inputs))

outcome_successful(rxn) ==
    Len(rxn.outcomes) > 0 /\ rxn.outcomes[1].reaction_product

Returned(v) == [raised |-> FALSE, value |-> v]
Raised(e) == [raised |-> TRUE, value |-> e]
Exception(type, status, task) == [type |-> type, status |-> status, task_id |-> task]
NoException == Exception("", 0, 0)

\* The try block with extracted_roles starting as an empty dict.
extract_try_without_core_keys(rxn, ds_id, order) ==
    IF rxn.raises = "outcomes" THEN Raised(Exception("AttributeError", 0, 0))
    ELSE IF rxn.raises = "reaction_id" THEN Raised(Exception("AttributeError", 0, 0))
    ELSE Returned([dataset_id |-> ds_id,
                   reaction_id |-> rxn.reaction_id,
                   components |-> walk_inputs([k \in {} |-> <<>>], order, rxn.inputs),
                   success |-> outcome_successful(rxn)])

\* The body of the try block (lines 109-154).
extract_try(rxn, ds_id, order) ==
    IF rxn.raises = "outcomes" THEN Raised(Exception("AttributeError", 0, 0))
    ELSE IF rxn.raises = "reaction_id" THEN Raised(Exception("AttributeError", 0, 0))
    ELSE Returned([dataset_id |-> ds_id,
                   reaction_id |-> rxn.reaction_id,
                   components |-> walk_inputs([k \in CORE_CATEGORIES |-> <<>>],
                                              order, rxn.inputs),
                   success |-> outcome_successful(rxn)])

\* The except clause (lines 156-162): it reads rxn.reaction_id.value again.
extract_except(rxn, ds_id, e) ==
    IF rxn.raises = "reaction_id" THEN Raised(Exception("AttributeError", 0, 0))
    ELSE Returned([dataset_id |-> ds_id, reaction_id |-> rxn.reaction_id, error |-> e])

extract_reaction_data(rxn, ds_id, order) ==
    LET t == extract_try(rxn, ds_id, order)
    IN  IF t.raised THEN extract_except(rxn, ds_id, t.value) ELSE t

(***************************************************************************)
(* What the remote service may answer.                                     *)
(***************************************************************************)
Descriptors ==
    { [dataset_id |-> "d1", num_reactions |-> 3],
      [dataset_id |-> "d2", num_reactions |-> 0] }
\* Allow-lists: none (or empty), an id the service lists, an id it does not.
AllowLists == {{}, {"d1"}, {"dx"}}

DatasetIds == {d.dataset_id : d \in Descriptors}

SeqsUpTo(S, n) == UNION {[1..k -> S] : k \in 0..n}
\* GET /datasets lists each dataset of the service at most once.
DatasetLists ==
    {ds \in SeqsUpTo(Descriptors, Cardinality(Descriptors)) :
        \A i, j \in 1..Len(ds) : i # j => ds[i].dataset_id # ds[j].dataset_id}
Envelopes == {[proto |-> p] : p \in Payloads}
ItemLists == SeqsUpTo(Envelopes, MaxItems)

Text_empty == <<>>
Text_not_ready == <<"T","a","s","k"," ","N","o","t"," ","R","e","a","d","y">>
Text_bad_task == <<"b","a","d"," ","t","a","s","k">>
Str_not_ready == <<"n","o","t"," ","r","e","a","d","y">>

\* A response: status, body text, and the body as JSON (json_ok: it parses).
Response(status, text, json_ok, json) ==
    [status_code |-> status, text |-> text, json_ok |-> json_ok, json |-> json]
NoResponse == Response(0, Text_empty, FALSE, <<>>)
PollResponses ==
    {Response(200, Text_empty, TRUE, its) : its \in ItemLists}
    \cup {Response(200, Text_bad_task, FALSE, <<>>)}
    \cup {Response(st, Text_empty, TRUE, <<>>) : st \in {202, 304, 503}}
    \cup {Response(400, t, FALSE, <<>>) : t \in {Text_not_ready, Text_bad_task}}
RequestTimes == {RequestTime}

(***************************************************************************)
(* Lines 207-208 for an envelope whose payload decodes: the result of      *)
(* extract_reaction_data(decode_reaction_proto(proto_b64), dataset_id),    *)
(* tabulated once for the payloads, dataset ids and orders of the model.   *)
(***************************************************************************)
extraction_table ==
    [p \in {q \in Payloads : q # "" /\ ~DecodeRaises(q)} |->
        [ds \in DatasetIds |->
            [order \in CoreOrders |->
                extract_reaction_data(ParseFromString(p), ds, order)]]]

decode_and_extract(proto_b64, ds_id, order) == extraction_table[proto_b64][ds_id][order]

(***************************************************************************)
(* requests: Response.raise_for_status and Response.json.                  *)
(***************************************************************************)
raise_for_status_raises(resp) == 400 <= resp.status_code /\ resp.status_code < 600
resp_json(resp) == IF resp.json_ok THEN resp.json ELSE <<>>

(***************************************************************************)
(* fetch_query_result (lines 51-78): what one pass of the while body does  *)
(* with a response.                                                        *)
(***************************************************************************)
\* The "not ready" test without .lower().
poll_branch_case_sensitive(resp) ==
    IF resp.status_code = 200 THEN "return"
    ELSE IF resp.status_code = 202 THEN "sleep"
    ELSE IF resp.status_code = 400 /\ contains(resp.text, Str_not_ready)
         THEN "sleep"
    ELSE IF raise_for_status_raises(resp) THEN "raise"
    ELSE "loop"

poll_branch(resp) ==
    IF resp.status_code = 200 THEN "return"
    ELSE IF resp.status_code = 202 THEN "sleep"
    ELSE IF resp.status_code = 400 /\ contains(lower(resp.text), Str_not_ready)
         THEN "sleep"
    ELSE IF raise_for_status_raises(resp) THEN "raise"
    ELSE "loop"

\* An inclusive comparison with the ceiling.
loop_condition_inclusive(t) == t <= REACTION_TIMEOUT_S

loop_condition(t) == t < REACTION_TIMEOUT_S

(***************************************************************************)
(* main (lines 263-272) and scrape_ord_advanced.                           *)
(***************************************************************************)
normalized_max_datasets(arg, ids) == IF arg = 0 /\ ids = {} THEN None ELSE arg

\* A filter that is never applied.
filter_datasets_unfiltered(ds, ids) == ds

filter_datasets(ds, ids) ==
    IF ids # {} THEN SelectSeq(ds, LAMBDA d : d.dataset_id \in ids) ELSE ds

limit_reached(max, count) == max # None /\ count >= max

\* The limit handed on as given, 0 included.
effective_limit_as_given(limit, num_rxns) == limit

effective_limit_of(limit, num_rxns) == IF limit > 0 THEN limit ELSE num_rxns

dataset_error(ds_id, e) == [dataset_id |-> ds_id, error |-> e]

Init ==
    /\ pc = "main"
    /\ schema_available \in BOOLEAN
    /\ core_order \in CoreOrders
    /\ max_datasets \in 0..MaxDatasetsArg
    /\ dataset_ids \in AllowLists
    /\ per_dataset_limit \in 0..MaxLimitArg
    /\ fetched = <<>>
    /\ datasets = <<>>
    /\ ds_i = 1
    /\ processed_count = 0
    /\ all_results = <<>>
    /\ first_result = 1
    /\ dataset_id = ""
    /\ effective_limit = 0
    /\ task_id = 0
    /\ submitted = <<>>
    /\ elapsed = 0
    /\ polls = 0
    /\ sleeps = 0
    /\ last_resp = NoResponse
    /\ slept = FALSE
    /\ items = <<>>
    /\ item_i = 1
    /\ decoded = {}
    /\ extractions = 0
    /\ exc = NoException
    /\ exit_code = -1
    /\ record = Rxn_A
    /\ data = <<>>

config == <<schema_available, core_order, dataset_ids, per_dataset_limit>>
poll_vars == <<elapsed, polls, sleeps, last_resp, slept>>
item_vars == <<items, item_i, decoded>>
call_vars == <<record, data>>
loop_vars == <<fetched, datasets, ds_i, processed_count, first_result, dataset_id,
               effective_limit>>

\* main, lines 266-272: "0" means all datasets only without an allow-list.
ParseArgs ==
    /\ pc = "main"
    /\ max_datasets' = normalized_max_datasets(max_datasets, dataset_ids)
    /\ pc' = "fetch"
    /\ UNCHANGED <<call_vars, config, loop_vars, all_results, task_id, submitted, poll_vars,
                   item_vars, extractions, exc, exit_code>>

\* scrape_ord_advanced, lines 172-183.
FetchDatasets ==
    /\ pc = "fetch"
    /\ \E ds \in DatasetLists :
        /\ fetched' = ds
        /\ datasets' = filter_datasets(ds, dataset_ids)
    /\ ds_i' = 1
    /\ processed_count' = 0
    /\ all_results' = <<>>
    /\ pc' = "for"
    /\ UNCHANGED <<call_vars, config, max_datasets, first_result, dataset_id, effective_limit, task_id,
                   submitted, poll_vars, item_vars, extractions, exc, exit_code>>

\* Line 177 raises (no answer, or no JSON): main's except clause, lines 297-299.
FetchDatasetsFails ==
    /\ pc = "fetch"
    /\ pc' = "exit"
    /\ exit_code' = 1
    /\ UNCHANGED <<call_vars, config, max_datasets, loop_vars, all_results, task_id, submitted,
                   poll_vars, item_vars, extractions, exc>>

\* Lines 185-195: the next dataset, when the count allows one more.
NextDataset ==
    /\ pc = "for"
    /\ ds_i <= Len(datasets)
    /\ ~limit_reached(max_datasets, processed_count)
    /\ dataset_id' = datasets[ds_i].dataset_id
    /\ effective_limit' =
            effective_limit_of(per_dataset_limit, datasets[ds_i].num_reactions)
    /\ first_result' = Len(all_results) + 1
    /\ pc' = "submit"
    /\ UNCHANGED <<call_vars, config, max_datasets, fetched, datasets, ds_i, processed_count,
                   all_results, task_id, submitted, poll_vars, item_vars,
                   extractions, exc, exit_code>>

\* Lines 189-190: break.
BreakAtLimit ==
    /\ pc = "for"
    /\ ds_i <= Len(datasets)
    /\ limit_reached(max_datasets, processed_count)
    /\ pc' = "returned"
    /\ UNCHANGED <<call_vars, config, max_datasets, loop_vars, all_results, task_id, submitted,
                   poll_vars, item_vars, extractions, exc, exit_code>>

\* The for loop is exhausted; line 220.
EndOfDatasets ==
    /\ pc = "for"
    /\ ds_i > Len(datasets)
    /\ pc' = "returned"
    /\ UNCHANGED <<call_vars, config, max_datasets, loop_vars, all_results, task_id, submitted,
                   poll_vars, item_vars, extractions, exc, exit_code>>

\* The token of the answer dropped: the poller gets the handle held before.
SubmitQueryKeepsHandle ==
    /\ pc = "submit"
    /\ task_id' = task_id
    /\ submitted' = Append(submitted, [dataset_id |-> dataset_id,
                                       limit |-> effective_limit,
                                       task_id |-> Len(submitted) + 1])
    /\ elapsed' = 0
    /\ pc' = "poll"
    /\ UNCHANGED <<call_vars, config, max_datasets, loop_vars, all_results, polls, sleeps,
                   last_resp, slept, item_vars, extractions, exc, exit_code>>

\* submit_query, lines 42-49, answered with a task token; then lines 53-55.
SubmitQuery ==
    /\ pc = "submit"
    /\ task_id' = Len(submitted) + 1
    /\ submitted' = Append(submitted, [dataset_id |-> dataset_id,
                                       limit |-> effective_limit,
                                       task_id |-> Len(submitted) + 1])
    /\ elapsed' = 0
    /\ pc' = "poll"
    /\ UNCHANGED <<call_vars, config, max_datasets, loop_vars, all_results, polls, sleeps,
                   last_resp, slept, item_vars, extractions, exc, exit_code>>

\* submit_query raises (line 46 or line 47).
SubmitQueryFails ==
    /\ pc = "submit"
    /\ submitted' = Append(submitted, [dataset_id |-> dataset_id,
                                       limit |-> effective_limit,
                                       task_id |-> 0])
    /\ exc' = Exception("HTTPError", 503, 0)
    /\ pc' = "raised"
    /\ UNCHANGED <<call_vars, config, max_datasets, loop_vars, all_results, task_id, poll_vars,
                   item_vars, extractions, exit_code>>

\* One pass of the while loop of fetch_query_result, by the branch taken.
PollRequest(resp, d) ==
    /\ pc = "poll"
    /\ loop_condition(elapsed)
    /\ polls' = polls + 1
    /\ last_resp' = resp

\* fetch_query_result returns or raises: its frame is gone.
LeavePoller ==
    /\ elapsed' = 0
    /\ slept' = FALSE

\* Lines 60-64: the result is ready; the call returns.
PollReady ==
    \E resp \in PollResponses, d \in RequestTimes :
        /\ PollRequest(resp, d)
        /\ poll_branch(resp) = "return"
        /\ items' = resp_json(resp)
        /\ LeavePoller
        /\ sleeps' = sleeps
        /\ pc' = "ready"
        /\ UNCHANGED <<call_vars, config, max_datasets, loop_vars, all_results, task_id,
                       submitted, item_i, decoded, extractions, exc, exit_code>>

\* Lines 67-74: not ready; sleep and go round.
PollNotReady ==
    \E resp \in PollResponses, d \in RequestTimes :
        /\ PollRequest(resp, d)
        /\ poll_branch(resp) = "sleep"
        /\ elapsed' = elapsed + d + POLL_SLEEP_S
        /\ sleeps' = sleeps + 1
        /\ slept' = TRUE
        /\ pc' = "poll"
        /\ UNCHANGED <<call_vars, config, max_datasets, loop_vars, all_results, task_id,
                       submitted, item_vars, extractions, exc, exit_code>>

\* Line 76 raises; the call ends.
PollFails ==
    \E resp \in PollResponses, d \in RequestTimes :
        /\ PollRequest(resp, d)
        /\ poll_branch(resp) = "raise"
        /\ exc' = Exception("HTTPError", resp.status_code, 0)
        /\ LeavePoller
        /\ sleeps' = sleeps
        /\ pc' = "raised"
        /\ UNCHANGED <<call_vars, config, max_datasets, loop_vars, all_results, task_id,
                       submitted, item_vars, extractions, exit_code>>

\* Line 76 returns: the while loop goes round without sleeping.
PollFallsThrough ==
    \E resp \in PollResponses, d \in RequestTimes :
        /\ PollRequest(resp, d)
        /\ poll_branch(resp) = "loop"
        /\ elapsed' = elapsed + d
        /\ sleeps' = sleeps
        /\ slept' = FALSE
        /\ pc' = "poll"
        /\ UNCHANGED <<call_vars, config, max_datasets, loop_vars, all_results, task_id,
                       submitted, item_vars, extractions, exc, exit_code>>

\* Line 78: the loop condition fails; the call ends.
PollTimesOut ==
    /\ pc = "poll"
    /\ ~loop_condition(elapsed)
    /\ exc' = Exception("TimeoutError", 0, task_id)
    /\ LeavePoller
    /\ pc' = "raised"
    /\ UNCHANGED <<call_vars, config, max_datasets, loop_vars, all_results, task_id, submitted,
                   polls, sleeps, last_resp, item_vars, extractions, exit_code>>

\* Lines 198-202: items is bound and the loop over it starts; the responses are dead.
StartItems ==
    /\ pc = "ready"
    /\ item_i' = 1
    /\ polls' = 0
    /\ sleeps' = 0
    /\ last_resp' = NoResponse
    /\ pc' = "items"
    /\ UNCHANGED <<call_vars, config, max_datasets, loop_vars, all_results, task_id, submitted,
                   elapsed, slept, items, decoded, extractions, exc, exit_code>>

\* Lines 203-205: an envelope without payload.
SkipItem ==
    /\ pc = "items"
    /\ item_i <= Len(items)
    /\ items[item_i].proto = ""
    /\ item_i' = item_i + 1
    /\ UNCHANGED <<pc, call_vars, config, max_datasets, loop_vars, all_results, task_id,
                   submitted, poll_vars, items, decoded, extractions, exc, exit_code>>

\* The failed import left to propagate as an ImportError, which line 213 catches.
DecodeImportErrorCaught ==
    /\ pc = "items"
    /\ item_i <= Len(items)
    /\ items[item_i].proto # ""
    /\ ~schema_available
    /\ decoded' = decoded \cup {item_i}
    /\ exc' = Exception("ImportError", 0, 0)
    /\ pc' = "raised"
    /\ UNCHANGED <<call_vars, config, max_datasets, loop_vars, all_results, task_id, submitted,
                   poll_vars, items, item_i, extractions, exit_code>>

\* Lines 84-88: the import fails; sys.exit(1) passes both except clauses.
DecodeExits ==
    /\ pc = "items"
    /\ item_i <= Len(items)
    /\ items[item_i].proto # ""
    /\ ~schema_available
    /\ decoded' = decoded \cup {item_i}
    /\ exit_code' = 1
    /\ pc' = "exit"
    /\ UNCHANGED <<call_vars, config, max_datasets, loop_vars, all_results, task_id, submitted,
                   poll_vars, items, item_i, extractions, exc>>

\* A decode failure caught per record: an error entry, and on to the next item.
DecodeFailsPerRecord ==
    /\ pc = "items"
    /\ item_i <= Len(items)
    /\ items[item_i].proto # ""
    /\ schema_available
    /\ DecodeRaises(items[item_i].proto)
    /\ decoded' = decoded \cup {item_i}
    /\ all_results' = Append(all_results,
                             dataset_error(dataset_id, Exception("DecodeError", 0, 0)))
    /\ item_i' = item_i + 1
    /\ UNCHANGED <<pc, call_vars, config, max_datasets, loop_vars, task_id, submitted,
                   poll_vars, items, extractions, exc, exit_code>>

\* Lines 90-92 raise.
DecodeFails ==
    /\ pc = "items"
    /\ item_i <= Len(items)
    /\ items[item_i].proto # ""
    /\ schema_available
    /\ DecodeRaises(items[item_i].proto)
    /\ decoded' = decoded \cup {item_i}
    /\ exc' = Exception("DecodeError", 0, 0)
    /\ pc' = "raised"
    /\ UNCHANGED <<call_vars, config, max_datasets, loop_vars, all_results, task_id, submitted,
                   poll_vars, items, item_i, extractions, exit_code>>

\* Line 209 as an insert at the front of the list.
ExtractItemPrepends ==
    /\ pc = "items"
    /\ item_i <= Len(items)
    /\ items[item_i].proto # ""
    /\ schema_available
    /\ ~DecodeRaises(items[item_i].proto)
    /\ LET r == decode_and_extract(items[item_i].proto, dataset_id, core_order)
       IN  /\ ~r.raised
           /\ all_results' = <<r.value>> \o all_results
    /\ decoded' = decoded \cup {item_i}
    /\ extractions' = extractions + 1
    /\ item_i' = item_i + 1
    /\ UNCHANGED <<pc, call_vars, config, max_datasets, loop_vars, task_id, submitted,
                   poll_vars, items, exc, exit_code>>

\* Lines 207-209: the record is decoded and extract_reaction_data returns.
ExtractItem ==
    /\ pc = "items"
    /\ item_i <= Len(items)
    /\ items[item_i].proto # ""
    /\ schema_available
    /\ ~DecodeRaises(items[item_i].proto)
    /\ LET r == decode_and_extract(items[item_i].proto, dataset_id, core_order)
       IN  /\ ~r.raised
           /\ all_results' = Append(all_results, r.value)
    /\ decoded' = decoded \cup {item_i}
    /\ extractions' = extractions + 1
    /\ item_i' = item_i + 1
    /\ UNCHANGED <<pc, call_vars, config, max_datasets, loop_vars, task_id, submitted,
                   poll_vars, items, exc, exit_code>>

\* Lines 207-208: the record is decoded and extract_reaction_data raises.
ExtractRaises ==
    /\ pc = "items"
    /\ item_i <= Len(items)
    /\ items[item_i].proto # ""
    /\ schema_available
    /\ ~DecodeRaises(items[item_i].proto)
    /\ LET r == decode_and_extract(items[item_i].proto, dataset_id, core_order)
       IN  /\ r.raised
           /\ exc' = r.value
    /\ decoded' = decoded \cup {item_i}
    /\ extractions' = extractions + 1
    /\ pc' = "raised"
    /\ UNCHANGED <<call_vars, config, max_datasets, loop_vars, all_results, task_id, submitted,
                   poll_vars, items, item_i, exit_code>>

\* Line 218 and back to line 185: the iteration's items and responses are dead.
EndOfIteration ==
    /\ ds_i' = ds_i + 1
    /\ items' = <<>>
    /\ item_i' = 1
    /\ decoded' = {}
    /\ polls' = 0
    /\ sleeps' = 0
    /\ last_resp' = NoResponse
    /\ pc' = "for"

\* Lines 211 and 218: the dataset is done.
DatasetDone ==
    /\ pc = "items"
    /\ item_i > Len(items)
    /\ processed_count' = processed_count + 1
    /\ EndOfIteration
    /\ UNCHANGED <<call_vars, config, max_datasets, fetched, datasets, first_result, dataset_id,
                   effective_limit, all_results, task_id, submitted, elapsed, slept,
                   extractions, exc, exit_code>>

\* Lines 213-218: the except clause of the for body.
handled_results(results, ds_id, e) == Append(results, dataset_error(ds_id, e))

\* An except clause that catches request errors only: anything else reaches main.
HandleRequestErrorsOnly ==
    /\ pc = "raised"
    /\ IF exc.type = "HTTPError"
       THEN /\ all_results' = handled_results(all_results, dataset_id, exc)
            /\ exc' = NoException
            /\ EndOfIteration
            /\ exit_code' = exit_code
       ELSE /\ pc' = "exit"
            /\ exit_code' = 1
            /\ UNCHANGED <<all_results, exc, ds_i, item_vars, polls, sleeps, last_resp>>
    /\ UNCHANGED <<call_vars, config, max_datasets, fetched, datasets, processed_count,
                   first_result, dataset_id, effective_limit, task_id, submitted,
                   elapsed, slept, extractions>>

HandleDatasetError ==
    /\ pc = "raised"
    /\ all_results' = handled_results(all_results, dataset_id, exc)
    /\ exc' = NoException
    /\ EndOfIteration
    /\ UNCHANGED <<call_vars, config, max_datasets, fetched, datasets, processed_count,
                   first_result, dataset_id,
                   effective_limit, task_id, submitted, elapsed, slept,
                   extractions, exit_code>>

\* main, lines 289-295: the rows are written and the process ends.
WriteOutput ==
    /\ pc = "returned"
    /\ pc' = "exit"
    /\ exit_code' = 0
    /\ UNCHANGED <<call_vars, config, max_datasets, loop_vars, all_results, task_id, submitted,
                   poll_vars, item_vars, extractions, exc>>

\* main, line 289 raises (the file cannot be opened): lines 297-299.
WriteOutputFails ==
    /\ pc = "returned"
    /\ pc' = "exit"
    /\ exit_code' = 1
    /\ UNCHANGED <<call_vars, config, max_datasets, loop_vars, all_results, task_id, submitted,
                   poll_vars, item_vars, extractions, exc>>

Next ==
    \/ ParseArgs
    \/ FetchDatasets
    \/ FetchDatasetsFails
    \/ NextDataset
    \/ BreakAtLimit
    \/ EndOfDatasets
    \/ SubmitQuery
    \/ SubmitQueryFails
    \/ PollReady
    \/ PollNotReady
    \/ PollFails
    \/ PollFallsThrough
    \/ PollTimesOut
    \/ StartItems
    \/ SkipItem
    \/ DecodeExits
    \/ DecodeFails
    \/ ExtractItem
    \/ ExtractRaises
    \/ DatasetDone
    \/ HandleDatasetError
    \/ WriteOutput
    \/ WriteOutputFails

Spec == Init /\ [][Next]_vars

\* The process runs: it takes its next step whenever it has one.
FairSpec == Spec /\ WF_vars(Next)

(***************************************************************************)
(* extract_reaction_data on its own: a caller holds one decoded record and *)
(* calls the extractor on it, again and again; between two calls the       *)
(* interpreter may have been started anew, and a new interpreter iterates  *)
(* the set CORE_CATEGORIES in an order of its own.                         *)
(***************************************************************************)
MaxInputs == 2          \* input groups of a record
MaxComponents == 1      \* components of an input group
MaxCalls == 2           \* calls of extract_reaction_data on one record

Key_Metal_Ligand == <<" ","M","e","t","a","l","_","L","i","g","a","n","d">>
InputKeys == {Key_Pd_ligand_1, Key_Metal_Ligand, Key_Quench}

Comp_none == Component(<<>>, 1)
Comp_blank == Component(<<"", "">>, 1)
Comp_text == Component(<<"XPhos", "", "CC1">>, 3)
SampleComponents == {Comp_none, Comp_blank, Comp_text}

ComponentLists == SeqsUpTo(SampleComponents, MaxComponents)
SampleInputs == {Input(k, cs) : k \in InputKeys, cs \in ComponentLists}
\* rxn.inputs is a map: its keys are distinct; it is iterated in some order.
InputMaps ==
    {ins \in SeqsUpTo(SampleInputs, MaxInputs) :
        \A i, j \in 1..Len(ins) : i # j => ins[i].key # ins[j].key}
OutcomeLists == {<<>>, <<[reaction_product |-> TRUE]>>}
Records ==
    {Rxn("rxn-1", "none", o, ins) : o \in OutcomeLists, ins \in InputMaps}
    \cup {Rxn_A, Rxn_B, Rxn_C}

ExtractInit ==
    /\ pc = "extract"
    /\ schema_available = TRUE
    /\ core_order \in CoreOrders
    /\ max_datasets = None
    /\ dataset_ids = {}
    /\ per_dataset_limit = 0
    /\ fetched = <<>>
    /\ datasets = <<>>
    /\ ds_i = 1
    /\ processed_count = 0
    /\ all_results = <<>>
    /\ first_result = 1
    /\ dataset_id = "d1"
    /\ effective_limit = 0
    /\ task_id = 0
    /\ submitted = <<>>
    /\ elapsed = 0
    /\ polls = 0
    /\ sleeps = 0
    /\ last_resp = NoResponse
    /\ slept = FALSE
    /\ items = <<>>
    /\ item_i = 1
    /\ decoded = {}
    /\ extractions = 0
    /\ exc = NoException
    /\ exit_code = -1
    /\ record \in Records
    /\ data = <<>>

program_vars == <<schema_available, max_datasets, dataset_ids, per_dataset_limit,
                  loop_vars, all_results, task_id, submitted, poll_vars, item_vars,
                  exc, exit_code>>

\* data = extract_reaction_data(rxn, dataset_id), lines 103-162.
CallExtract ==
    /\ pc = "extract"
    /\ Len(data) < MaxCalls
    /\ data' = Append(data, extract_reaction_data(record, dataset_id, core_order))
    /\ extractions' = extractions + 1
    /\ UNCHANGED <<pc, core_order, record, program_vars>>

\* The interpreter is started anew: line 16 builds the set again.
Restart ==
    /\ pc = "extract"
    /\ core_order' \in CoreOrders \ {core_order}
    /\ UNCHANGED <<pc, record, data, extractions, program_vars>>

ExtractNext ==
    \/ CallExtract
    \/ Restart

ExtractSpec == ExtractInit /\ [][ExtractNext]_vars

(***************************************************************************)
(* Vocabulary of the properties.                                           *)
(***************************************************************************)
IsDatasetError(r) == DOMAIN r = {"dataset_id", "error"}
IsRecordError(r) == DOMAIN r = {"dataset_id", "reaction_id", "error"}
IsExtracted(r) == DOMAIN r = {"dataset_id", "reaction_id", "components", "success"}
ids_of(ds) == [i \in 1..Len(ds) |-> ds[i].dataset_id]
Running == pc \notin {"main", "fetch"}

(***************************************************************************)
(* C1. When submit, poll or decode raises for a dataset, the step that     *)
(* raises appends nothing, the except clause appends exactly one           *)
(* {dataset_id, error} record for that dataset and the loop moves to the   *)
(* next dataset; scrape_ord_advanced returns only at the end of the list   *)
(* or at the max_datasets stop, and once a dataset has failed the run      *)
(* still gets there.                                                       *)
(***************************************************************************)
C1_FailureIsRecordedAndRunContinues ==
    /\ [][pc' = "raised" => pc \in {"submit", "poll", "items"}
                            /\ all_results' = all_results
                            /\ exc' # NoException]_vars
    /\ [][pc = "raised" =>
            /\ all_results' = Append(all_results,
                                     [dataset_id |-> datasets[ds_i].dataset_id,
                                      error |-> exc])
            /\ ds_i' = ds_i + 1
            /\ pc' = "for"]_vars
    /\ [][pc' = "returned" =>
            \/ ds_i > Len(datasets)
            \/ (max_datasets # None /\ processed_count >= max_datasets)]_vars
    /\ [](pc = "raised" /\ schema_available => <>(pc = "returned"))

\* Two datasets failed, one in the poller and one in the decoder, and the run returned.
C1_Witness ==
    /\ pc = "returned"
    /\ Len(all_results) = 2
    /\ IsDatasetError(all_results[1]) /\ all_results[1].error.type = "TimeoutError"
    /\ IsDatasetError(all_results[2]) /\ all_results[2].error.type = "DecodeError"

(***************************************************************************)
(* C2. With max_datasets = N (not None), one run submits queries for at    *)
(* most N datasets, failed datasets counting like successful ones.         *)
(***************************************************************************)
C2_AtMostNSubmitted ==
    (Running /\ max_datasets # None) => Len(submitted) <= max_datasets

(***************************************************************************)
(* C3. When the configured number of datasets is 0, with or without an     *)
(* allow-list, a run that returns has submitted every selected dataset.    *)
(***************************************************************************)
C3_ZeroMeansAll ==
    (pc = "returned" /\ max_datasets \in {0, None}) =>
        ids_of(submitted) = ids_of(datasets)

(***************************************************************************)
(* C4. With a non-empty allow-list L, the datasets iterated are exactly    *)
(* the fetched datasets whose id is in L, in the fetched order; those      *)
(* submitted are a prefix of them, cut only when processed_count has       *)
(* reached max_datasets; when no fetched id is in L nothing is submitted,  *)
(* the result list is empty and no exception is raised.                    *)
(***************************************************************************)
allowed_positions == {j \in 1..Len(fetched) : fetched[j].dataset_id \in dataset_ids}
nth_allowed(i) ==
    CHOOSE j \in allowed_positions :
        Cardinality({q \in allowed_positions : q < j}) = i - 1

C5_PollerTerminates ==
    /\ [][polls' = polls + 1 => pc = "poll" /\ elapsed < REACTION_TIMEOUT_S]_vars
    /\ [][(pc = "poll" /\ elapsed >= REACTION_TIMEOUT_S) =>
            (pc' = "raised" /\ exc' = Exception("TimeoutError", 0, task_id))]_vars
    /\ [][(exc'.type = "TimeoutError" /\ exc.type # "TimeoutError") =>
            (pc = "poll" /\ elapsed >= REACTION_TIMEOUT_S /\ polls' = polls)]_vars
    /\ [](pc = "poll" => <>(pc # "poll"))

\* Three not-ready answers used up the 90 units: the timeout names the task.
C5_Witness ==
    /\ pc = "raised"
    /\ task_id # 0
    /\ exc = Exception("TimeoutError", 0, task_id)
    /\ sleeps = 3
    /\ polls = 3

(***************************************************************************)
(* C6. A not-ready response (202, or 400 whose text contains "not ready"   *)
(* in any case) keeps the poller polling, without an error; a 200 response *)
(* makes it return the parsed body, the empty list when the body is no     *)
(* JSON, without an error.                                                 *)
(***************************************************************************)
is_not_ready(resp) ==
    \/ resp.status_code = 202
    \/ resp.status_code = 400 /\ contains(lower(resp.text), Str_not_ready)

C6_ReadyAfterNotReady ==
    [][polls' = polls + 1 =>
        /\ is_not_ready(last_resp') =>
                (pc' = "poll" /\ exc' = NoException /\ all_results' = all_results)
        /\ last_resp'.status_code = 200 =>
                /\ pc' = "ready"
                /\ items' = (IF last_resp'.json_ok THEN last_resp'.json ELSE <<>>)
                /\ exc' = NoException]_vars

\* Two not-ready answers, then a 200 whose body is no JSON: the empty list.
C6_Witness ==
    /\ pc = "ready"
    /\ polls = 3
    /\ sleeps = 2
    /\ last_resp.status_code = 200
    /\ ~last_resp.json_ok
    /\ items = <<>>
    /\ exc = NoException

(***************************************************************************)
(* C7. A poll response whose status is not 2xx and that is not a 400       *)
(* "not ready" makes the poller raise at once, and no further poll request *)
(* follows it for that task.                                               *)
(***************************************************************************)
is_2xx(resp) == 200 <= resp.status_code /\ resp.status_code < 300
fails_poll(resp) == resp.status_code # 0 /\ ~is_2xx(resp) /\ ~is_not_ready(resp)

C7_OtherStatusFailsAtOnce ==
    /\ [][(polls' = polls + 1 /\ fails_poll(last_resp')) =>
            (pc' = "raised" /\ exc'.type = "HTTPError")]_vars
    /\ [][fails_poll(last_resp) => polls' # polls + 1]_vars

(***************************************************************************)
(* C8. Every call of extract_reaction_data on a decoded record returns to  *)
(* the orchestrator, which appends its result, an entry carrying the       *)
(* dataset_id and a reaction_id, and goes on with the next item.           *)
(***************************************************************************)
C8_ExtractionFailureStaysLocal ==
    [][extractions' = extractions + 1 =>
        /\ pc' = "items"
        /\ item_i' = item_i + 1
        /\ Len(all_results') = Len(all_results) + 1
        /\ all_results'[Len(all_results')].dataset_id = dataset_id
        /\ "reaction_id" \in DOMAIN all_results'[Len(all_results')]]_vars

(***************************************************************************)
(* C9. As claimed: without the schema collaborator no run ends with exit   *)
(* status zero and none performs an extraction.                            *)
(***************************************************************************)
C9_NeverExitsZeroWithoutSchema ==
    ~schema_available => (exit_code # 0 /\ extractions = 0)

(***************************************************************************)
(* C9, amended. Without the schema collaborator no extraction is ever      *)
(* performed and the result list holds dataset-level error records only;   *)
(* the first envelope with a payload that reaches the decoder ends the     *)
(* process with exit status 1, so a run exits with status zero only if no  *)
(* payload reached the decoder.                                            *)
(***************************************************************************)
C9_AbortsAtFirstDecode ==
    ~schema_available =>
        /\ extractions = 0
        /\ \A i \in 1..Len(all_results) : IsDatasetError(all_results[i])
        /\ decoded # {} => (pc = "exit" /\ exit_code = 1)
        /\ \A i \in 1..(item_i - 1) : items[i].proto = ""

\* The decoder was reached without the schema library: exit status 1.
C9_Witness ==
    /\ ~schema_available
    /\ decoded # {}
    /\ pc = "exit"
    /\ exit_code = 1

(***************************************************************************)
(* C10. When decoding fails on the k-th envelope of a dataset, nothing is  *)
(* appended for it and the exception reaches the except clause; after the  *)
(* except clause the dataset's entries are the extracted records of the    *)
(* envelopes with a payload before k, in order, followed by one            *)
(* {dataset_id, error} object; no envelope after k was decoded, and the    *)
(* loop is at the next dataset, where nothing is added for this one.       *)
(***************************************************************************)
RECURSIVE entries_of(_, _, _)
entries_of(its, ds_id, order) ==
    IF its = <<>> THEN <<>>
    ELSE (IF Head(its).proto = "" THEN <<>>
          ELSE <<decode_and_extract(Head(its).proto, ds_id, order).value>>)
         \o entries_of(Tail(its), ds_id, order)

decode_fails_here ==
    /\ pc = "items"
    /\ item_i <= Len(items)
    /\ schema_available
    /\ items[item_i].proto # ""
    /\ DecodeRaises(items[item_i].proto)

C10_DecodeFailureCutsDataset ==
    /\ [][decode_fails_here =>
            /\ pc' = "raised"
            /\ exc'.type = "DecodeError"
            /\ item_i' = item_i
            /\ all_results' = all_results]_vars
    /\ [][(pc = "raised" /\ exc.type = "DecodeError") =>
            /\ SubSeq(all_results', first_result, Len(all_results')) =
                    entries_of(SubSeq(items, 1, item_i - 1), dataset_id, core_order)
                    \o <<[dataset_id |-> dataset_id, error |-> exc]>>
            /\ \A i \in decoded : i <= item_i
            /\ ds_i' = ds_i + 1
            /\ pc' = "for"]_vars
    /\ [][pc = "for" => all_results' = all_results]_vars

\* The second envelope failed to decode: one extracted record, then the error object.
C10_Witness ==
    /\ pc = "for"
    /\ Len(all_results) = first_result + 1
    /\ IsExtracted(all_results[first_result])
    /\ IsDatasetError(all_results[first_result + 1])
    /\ all_results[first_result + 1].error.type = "DecodeError"

(***************************************************************************)
(* Vocabulary of the extractor's properties: the calls that returned the   *)
(* success shape, and the category lists of such a result.                 *)
(***************************************************************************)
SuccessCalls == {i \in 1..Len(data) : ~data[i].raised /\ IsExtracted(data[i].value)}
categories_of(i) == DOMAIN data[i].value.components
IsList(x) == DOMAIN x = 1..Len(x)

(***************************************************************************)
(* C11. Every success-shaped result of extract_reaction_data has a         *)
(* components mapping with all six core keys, each mapped to a list,       *)
(* which may be empty.                                                     *)
(***************************************************************************)
C11_AllCoreKeysPresent ==
    \A i \in SuccessCalls :
        /\ CORE_CATEGORIES \subseteq categories_of(i)
        /\ \A k \in categories_of(i) : IsList(data[i].value.components[k])

\* A result with a dynamic key, a filled core list and empty core lists.
C11_Witness ==
    /\ 1 \in SuccessCalls
    /\ categories_of(1) # CORE_CATEGORIES
    /\ data[1].value.components[Str_ligand] # <<>>
    /\ data[1].value.components[Str_base] = <<>>
    /\ data[1].value.components[Str_solvent] = <<>>

(***************************************************************************)
(* Components of a record and entries of a result.                         *)
(***************************************************************************)
has_text(component) ==
    \E j \in 1..Len(component.identifiers) : component.identifiers[j] # ""

\* The components of a record, as (group, position) pairs.
components_in(rxn) ==
    UNION {{<<g, c>> : c \in 1..Len(rxn.inputs[g].components)} :
           g \in 1..Len(rxn.inputs)}
component_at(rxn, gc) == rxn.inputs[gc[1]].components[gc[2]]
retained_in(rxn) == {gc \in components_in(rxn) : has_text(component_at(rxn, gc))}

\* The entries of a result, as (category, position) pairs.
entries_in(components) ==
    UNION {{<<k, j>> : j \in 1..Len(components[k])} : k \in DOMAIN components}

(***************************************************************************)
(* C12. In a success-shaped result no entry stands for a component without *)
(* identifier text: no entry has an empty value, and a record none of      *)
(* whose components has text gives empty lists only; every component with  *)
(* a non-empty identifier value has an entry carrying its joined text.     *)
(***************************************************************************)
C12_NoTextNoEntry ==
    \A i \in SuccessCalls :
        LET components == data[i].value.components
        IN  /\ \A kj \in entries_in(components) : components[kj[1]][kj[2]].value # ""
            /\ retained_in(record) = {} => entries_in(components) = {}
            /\ \A gc \in retained_in(record) :
                \E kj \in entries_in(components) :
                    components[kj[1]][kj[2]].value =
                        extract_identifiers(component_at(record, gc))

\* A group whose component has no text next to a group whose component has:
\* one entry in all.
C12_Witness ==
    /\ 1 \in SuccessCalls
    /\ components_in(record) = {<<1, 1>>, <<2, 1>>}
    /\ ~has_text(component_at(record, <<1, 1>>))
    /\ has_text(component_at(record, <<2, 1>>))
    /\ Cardinality(entries_in(data[1].value.components)) = 1

(***************************************************************************)
(* C13. A component with text whose normalized group name contains a core  *)
(* category name is filed under a core category contained in that name,    *)
(* and no dynamic key is created for it; a component with text is filed    *)
(* under its normalized group name when no core category name is a         *)
(* substring of it, and only then: every key beyond the six core keys is   *)
(* the normalized name of a group with such a component and contains no    *)
(* core category name.                                                     *)
(***************************************************************************)
core_names_in(normalized_key) == {k \in CORE_CATEGORIES : contains(normalized_key, k)}
\* Both, worked out once for the group names of the records.
group_names == [k \in InputKeys \cup {Key_Base} |-> normalize_key(k)]
core_names == [k \in InputKeys \cup {Key_Base} |-> core_names_in(group_names[k])]
group_name(rxn, gc) == group_names[rxn.inputs[gc[1]].key]
group_core_names(rxn, gc) == core_names[rxn.inputs[gc[1]].key]
filed_under(components, k, rxn, gc) ==
    /\ k \in DOMAIN components
    /\ \E j \in 1..Len(components[k]) :
            components[k][j].value = extract_identifiers(component_at(rxn, gc))

C13_CoreNameWinsOverDynamicKey ==
    \A i \in SuccessCalls :
        LET components == data[i].value.components
        IN  /\ \A gc \in retained_in(record) :
                IF group_core_names(record, gc) # {}
                THEN \E k \in group_core_names(record, gc) :
                        filed_under(components, k, record, gc)
                ELSE filed_under(components, group_name(record, gc), record, gc)
            /\ \A d \in DOMAIN components \ CORE_CATEGORIES :
                \E gc \in retained_in(record) :
                    /\ group_name(record, gc) = d
                    /\ group_core_names(record, gc) = {}

\* Group "Pd_ligand_1" went under "ligand", group "Quench" under "quench".
C13_Witness ==
    /\ 1 \in SuccessCalls
    /\ {record.inputs[g].key : g \in 1..Len(record.inputs)} =
            {Key_Pd_ligand_1, Key_Quench}
    /\ Len(data[1].value.components[Str_ligand]) = 1
    /\ DOMAIN data[1].value.components = CORE_CATEGORIES \cup {normalize_key(Key_Quench)}
    /\ normalize_key(Key_Pd_ligand_1) \notin DOMAIN data[1].value.components
    /\ Len(data[1].value.components[normalize_key(Key_Quench)]) = 1

(***************************************************************************)
(* C14. extract_reaction_data is a function of the decoded record and the  *)
(* dataset_id: all calls on the same record with the same dataset_id give  *)
(* the same result, the chosen category included.                          *)
(***************************************************************************)
C14_SameRecordSameOutput ==
    \A i, j \in 1..Len(data) : data[i] = data[j]

(***************************************************************************)
(* C19. In a success-shaped result the number of entries over all category *)
(* lists equals the number of components of the record that have           *)
(* identifier text: none is filed twice and none is lost, also when its    *)
(* group name contains several core category names.                        *)
(***************************************************************************)
C19_OneEntryPerRetainedComponent ==
    \A i \in SuccessCalls :
        Cardinality(entries_in(data[i].value.components)) =
            Cardinality(retained_in(record))

\* A component of a group whose name holds "metal" and "ligand": one entry.
C19_Witness ==
    /\ 1 \in SuccessCalls
    /\ retained_in(record) = {<<1, 1>>}
    /\ group_core_names(record, <<1, 1>>) = {Str_metal, Str_ligand}
    /\ Cardinality(entries_in(data[1].value.components)) = 1

(***************************************************************************)
(* C15. Every submit_query call carries the limit per_dataset_limit when   *)
(* that is positive, and the reaction count the dataset list reports for   *)
(* the dataset when per_dataset_limit is 0.                                *)
(***************************************************************************)
reported_count(ds_id) ==
    fetched[CHOOSE i \in 1..Len(fetched) : fetched[i].dataset_id = ds_id].num_reactions

C15_LimitPassedToSubmit ==
    \A i \in 1..Len(submitted) :
        /\ \E j \in 1..Len(fetched) : fetched[j].dataset_id = submitted[i].dataset_id
        /\ per_dataset_limit > 0 => submitted[i].limit = per_dataset_limit
        /\ per_dataset_limit = 0 =>
                submitted[i].limit = reported_count(submitted[i].dataset_id)

\* With --limit 0, a dataset reporting three reactions was asked for three.
C15_Witness ==
    /\ per_dataset_limit = 0
    /\ \E i \in 1..Len(submitted) :
            /\ submitted[i].limit = 3
            /\ reported_count(submitted[i].dataset_id) = 3

(***************************************************************************)
(* C16. The result list is only ever appended to; its entries stand in the *)
(* order of the dataset list, those of an earlier dataset before those of  *)
(* a later one; while a dataset's envelopes are walked, the dataset's      *)
(* entries are the extracted records of the envelopes walked so far that   *)
(* have a payload, in the order of the envelope list.                      *)
(***************************************************************************)
position_of(ds_id) == CHOOSE i \in 1..Len(datasets) : datasets[i].dataset_id = ds_id

C16_DatasetThenRecordOrder ==
    /\ [][/\ Len(all_results') >= Len(all_results)
          /\ SubSeq(all_results', 1, Len(all_results)) = all_results]_vars
    /\ [](\A i, j \in 1..Len(all_results) :
            /\ \E n \in 1..Len(datasets) :
                    datasets[n].dataset_id = all_results[i].dataset_id
            /\ i < j => position_of(all_results[i].dataset_id)
                            <= position_of(all_results[j].dataset_id))
    /\ [](pc = "items" =>
            SubSeq(all_results, first_result, Len(all_results)) =
                entries_of(SubSeq(items, 1, item_i - 1), dataset_id, core_order))

\* The second dataset: an envelope without payload, then one extracted,
\* after the entry of the first dataset.
C16_Witness ==
    /\ pc = "items"
    /\ ds_i = 2
    /\ first_result = 2
    /\ Len(items) = 2 /\ items[1].proto = "" /\ items[2].proto # ""
    /\ item_i = 3
    /\ Len(all_results) = 2
    /\ all_results[1].dataset_id = datasets[1].dataset_id
    /\ all_results[2].dataset_id = datasets[2].dataset_id
    /\ IsExtracted(all_results[2])

(***************************************************************************)
(* C17. A poll request that is not the first one for its task is issued    *)
(* only after the 2-unit sleep that followed the previous response.        *)
(***************************************************************************)
C17_SleepBetweenPolls ==
    [][(polls' = polls + 1 /\ polls >= 1) => slept]_vars

(***************************************************************************)
(* C18. Every attempted dataset gets exactly one submit_query call, for    *)
(* its own dataset_id; a poll loop starts only out of a submit that        *)
(* returned a handle, with that handle; every poll request is made inside  *)
(* such a loop with the handle of the latest submit, which is the submit   *)
(* of the current dataset; once the loop is left, nothing is polled until  *)
(* the next submit has returned.                                           *)
(***************************************************************************)
last_submit == submitted[Len(submitted)]

C18_HandleConsumedOnce ==
    /\ [][pc' = "submit" => (pc = "for" /\ submitted' = submitted)]_vars
    /\ [][pc = "submit" =>
            /\ submitted' = Append(submitted, last_submit')
            /\ last_submit'.dataset_id = dataset_id
            /\ pc' \in {"poll", "raised"}]_vars
    /\ [][submitted' # submitted => pc = "submit"]_vars
    /\ [][(pc' = "poll" /\ pc # "poll") =>
            /\ pc = "submit"
            /\ last_submit'.task_id # 0
            /\ task_id' = last_submit'.task_id
            /\ polls' = 0]_vars
    /\ [][polls' = polls + 1 =>
            /\ pc = "poll"
            /\ task_id = last_submit.task_id
            /\ task_id # 0
            /\ last_submit.dataset_id = dataset_id
            /\ \A i \in 1..(Len(submitted) - 1) : submitted[i].task_id # task_id]_vars
    /\ [][pc = "poll" => task_id' = task_id]_vars

\* The second dataset is polled with the handle of the second submit.
C18_Witness ==
    /\ pc = "poll"
    /\ polls = 2
    /\ Len(submitted) = 2
    /\ submitted[1].task_id # 0
    /\ task_id = submitted[2].task_id
    /\ task_id # submitted[1].task_id
    /\ submitted[1].dataset_id # submitted[2].dataset_id

====
